---- MODULE Spec2Model ----
(***************************************************************************)
(* Model of src/filter_hosts.py: the DomainTrie (nested dicts on a heap),  *)
(* clean_domain, build_trie_from_url, merge_tries, filter_hosts_file and   *)
(* the main workflow.                                                      *)
(*                                                                         *)
(* A Python str is a sequence of one-character strings.  A dict is a       *)
(* function from keys (strs) to values; a value is a node id (an index in  *)
(* heap) or True.  Dicts are mutable objects, so they live in heap and are *)
(* referred to by id: two references to one id are aliases.                *)
(***************************************************************************)
EXTENDS Integers, Sequences, FiniteSets, TLC

VARIABLES
    heap,           \* all dict objects: heap[id] is the dict with that id
    \* --- main workflow (main, build_trie_from_url, filter_hosts_file)
    pc,             \* position of main: which source is being read, or the end
    white_trie,     \* main: white_trie          (a root id)
    black_trie1,    \* main: black_trie1         (a root id, or None before it is built)
    black_trie2,    \* main: black_trie2
    n_read,         \* lines the current source has delivered so far
    outcome,        \* per source: "pending", "returned" (normal return) or "except"
    src_failed,     \* sources that raised a transport error
    hosts_read,     \* the lines the hosts source has delivered, in order
    filtered_lines, \* filter_hosts_file: filtered_lines
    result_lines,   \* main: result_lines
    file,           \* content of filtered_hosts.txt (NoFile while not written)
    exit_code,      \* process exit status: "running", "0" or "1"
    \* --- DomainTrie operations applied in any order to two tries
    trie1, trie2,   \* root ids of two DomainTrie objects
    ops,            \* number of operations applied so far
    inserted,       \* per trie: the keys add_domain has stored without raising
    merged,         \* per trie: whether it has been the destination of a merge
    last,           \* the last operation applied
    \* --- clean_domain applied to a raw token
    raw, cleaned, cl_pc

mainVars  == <<pc, white_trie, black_trie1, black_trie2, n_read, outcome,
               src_failed, hosts_read, filtered_lines, result_lines, file, exit_code>>
trieVars  == <<trie1, trie2, ops, inserted, merged, last>>
cleanVars == <<raw, cleaned, cl_pc>>
vars == <<heap, mainVars, trieVars, cleanVars>>

----------------------------------------------------------------------------
(* Bounds *)
MaxOps    == 3    \* trie operations per behaviour
MaxLines  == 2    \* lines a source delivers
MaxTokLen == 4    \* characters of a raw token given to clean_domain

----------------------------------------------------------------------------
(* Python values *)
True == 0           \* the value True stored under the end mark
None == -1          \* the value None returned by a failed build
end_mark == <<"$">> \* DomainTrie._end_mark
EmptyDict == [k \in {} |-> True]
Whitespace == {" "}

DictSet(d, k, v) == [x \in (DOMAIN d) \cup {k} |-> IF x = k THEN v ELSE d[x]]

----------------------------------------------------------------------------
(* str methods *)
RECURSIVE lstrip(_, _)
lstrip(s, cs) ==
    IF s # <<>> /\ Head(s) \in cs THEN lstrip(Tail(s), cs) ELSE s

RECURSIVE rstrip(_, _)
rstrip(s, cs) ==
    IF s # <<>> /\ s[Len(s)] \in cs THEN rstrip(SubSeq(s, 1, Len(s) - 1), cs) ELSE s

strip(s, cs) == rstrip(lstrip(s, cs), cs)

startswith(s, c) == s # <<>> /\ Head(s) = c

\* index of the first c in s, 0 when there is none
RECURSIVE find(_, _, _)
find(s, c, i) ==
    IF i > Len(s) THEN 0 ELSE IF s[i] = c THEN i ELSE find(s, c, i + 1)

\* s.split(c): the pieces between occurrences of c, empty pieces included
RECURSIVE split(_, _)
split(s, c) ==
    LET i == find(s, c, 1)
    IN  IF i = 0 THEN <<s>>
        ELSE <<SubSeq(s, 1, i - 1)>> \o split(SubSeq(s, i + 1, Len(s)), c)

\* s.split(c, 1)[0]
split_first(s, c) ==
    LET i == find(s, c, 1) IN IF i = 0 THEN s ELSE SubSeq(s, 1, i - 1)

\* index of the first whitespace character at or after i, Len(s)+1 when none
RECURSIVE find_ws(_, _)
find_ws(s, i) ==
    IF i > Len(s) THEN i ELSE IF s[i] \in Whitespace THEN i ELSE find_ws(s, i + 1)

\* s.split(): the maximal runs of non-whitespace characters
RECURSIVE split_ws(_)
split_ws(s) ==
    LET t == lstrip(s, Whitespace)
    IN  IF t = <<>> THEN <<>>
        ELSE LET j == find_ws(t, 1)
             IN  <<SubSeq(t, 1, j - 1)>> \o split_ws(SubSeq(t, j, Len(t)))

\* s[::-1] of a list
reversed(l) == [i \in 1..Len(l) |-> l[Len(l) + 1 - i]]

\* '\n'.join(lines)
RECURSIVE join(_)
join(lines) ==
    IF lines = <<>> THEN <<>>
    ELSE IF Len(lines) = 1 THEN lines[1]
    ELSE lines[1] \o <<"\n">> \o join(Tail(lines))

----------------------------------------------------------------------------
(* clean_domain *)

\* every run of consecutive dots replaced by one dot
RECURSIVE collapse_dots(_)
collapse_dots(s) ==
    IF Len(s) < 2 THEN s
    ELSE IF s[1] = "." /\ s[2] = "." THEN collapse_dots(Tail(s))
    ELSE <<s[1]>> \o collapse_dots(Tail(s))

\* a clean_domain that also collapses internal dot runs
clean_domain_collapse(domain) ==
    collapse_dots(strip(strip(domain, Whitespace), {"."}))

clean_domain(domain) ==
    strip(strip(domain, Whitespace), {"."})

----------------------------------------------------------------------------
(* DomainTrie *)

\* the loop and the final assignment of add_domain, from node cur at parts[i]
RECURSIVE add_walk(_, _, _, _)
add_walk(h, cur, parts, i) ==
    IF i > Len(parts)
    THEN IF cur = True
         THEN [heap |-> h, raised |-> TRUE]     \* True['$'] = True
         ELSE [heap |-> [h EXCEPT ![cur] = DictSet(@, end_mark, True)],
               raised |-> FALSE]
    ELSE IF cur = True
         THEN [heap |-> h, raised |-> TRUE]     \* part not in True
    ELSE IF parts[i] \notin DOMAIN h[cur]
         THEN LET new == Len(h) + 1
                  h2  == Append([h EXCEPT ![cur] = DictSet(@, parts[i], new)],
                                EmptyDict)
              IN  add_walk(h2, new, parts, i + 1)
    ELSE add_walk(h, h[cur][parts[i]], parts, i + 1)

\* add_domain on the trie with the given root: the heap afterwards and
\* whether a TypeError was raised
add_domain(h, root, domain) ==
    IF domain = <<>> THEN [heap |-> h, raised |-> FALSE]
    ELSE add_walk(h, root, reversed(split(domain, ".")), 1)

\* the loop and the final return of is_subdomain_or_match
RECURSIVE match_walk(_, _, _, _)
match_walk(h, cur, parts, i) ==
    IF i > Len(parts)
    THEN IF cur = True THEN "TypeError"
         ELSE IF end_mark \in DOMAIN h[cur] THEN "True" ELSE "False"
    ELSE IF cur = True THEN "TypeError"                 \* part not in True
    ELSE IF parts[i] \notin DOMAIN h[cur] THEN "False"
    ELSE LET nxt == h[cur][parts[i]]
         IN  IF nxt = True THEN "TypeError"             \* '$' in True
             ELSE IF end_mark \in DOMAIN h[nxt] THEN "True"
             ELSE match_walk(h, nxt, parts, i + 1)

\* is_subdomain_or_match: "True", "False", or "TypeError" when it raises
is_subdomain_or_match(h, root, domain) ==
    IF domain = <<>> THEN "False"
    ELSE match_walk(h, root, reversed(split(domain, ".")), 1)

----------------------------------------------------------------------------
(* merge_tries *)

\* a _merge_nodes that stores the source's child node itself in the
\* destination when the key is new there
RECURSIVE merge_nodes_alias(_, _, _, _)
merge_nodes_alias(h, src_node, dest_node, todo) ==
    IF todo = {} THEN h
    ELSE LET key  == CHOOSE k \in todo : TRUE
             rest == todo \ {key}
         IN  IF key = end_mark
             THEN merge_nodes_alias([h EXCEPT ![dest_node] = DictSet(@, key, True)],
                                    src_node, dest_node, rest)
             ELSE IF key \notin DOMAIN h[dest_node]
             THEN merge_nodes_alias(
                      [h EXCEPT ![dest_node] = DictSet(@, key, h[src_node][key])],
                      src_node, dest_node, rest)
             ELSE merge_nodes_alias(
                      merge_nodes_alias(h, h[src_node][key], h[dest_node][key],
                                        DOMAIN h[h[src_node][key]]),
                      src_node, dest_node, rest)

\* _merge_nodes(src_node, dest_node); todo is the part of src_node.items()
\* not yet visited.  The keys of one dict lead to disjoint subtrees, so the
\* order of the visit decides only which fresh ids the new nodes get.
RECURSIVE merge_nodes(_, _, _, _)
merge_nodes(h, src_node, dest_node, todo) ==
    IF todo = {} THEN h
    ELSE LET key  == CHOOSE k \in todo : TRUE
             rest == todo \ {key}
         IN  IF key = end_mark
             THEN merge_nodes([h EXCEPT ![dest_node] = DictSet(@, key, True)],
                              src_node, dest_node, rest)
             ELSE LET h1 == IF key \notin DOMAIN h[dest_node]
                            THEN Append([h EXCEPT ![dest_node] =
                                             DictSet(@, key, Len(h) + 1)],
                                        EmptyDict)
                            ELSE h
                      h2 == merge_nodes(h1, h[src_node][key], h1[dest_node][key],
                                        DOMAIN h[h[src_node][key]])
                  IN  merge_nodes(h2, src_node, dest_node, rest)

\* merge_tries(trie1, trie2): the heap afterwards
merge_tries(h, t1, t2) ==
    IF t1 # None /\ t2 # None
    THEN merge_nodes(h, t2, t1, DOMAIN h[t2])
    ELSE h

----------------------------------------------------------------------------
(* build_trie_from_url *)

\* one iteration of the loop over response.iter_lines(): the heap afterwards
\* and whether add_domain raised
build_line(h, root, line0) ==
    LET line == strip(line0, Whitespace)
    IN  IF line = <<>> \/ startswith(lstrip(line, Whitespace), "#")
        THEN [heap |-> h, raised |-> FALSE]
        ELSE LET cleaned_domain == clean_domain(line)
             IN  IF cleaned_domain # <<>>
                 THEN add_domain(h, root, cleaned_domain)
                 ELSE [heap |-> h, raised |-> FALSE]

----------------------------------------------------------------------------
(* filter_hosts_file *)

\* [clean_domain(d) for d in content_part.split() if clean_domain(d)]
line_domains_of(line0) ==
    LET line_clean == strip(line0, Whitespace)
    IN  IF line_clean = <<>> \/ startswith(line_clean, "#") THEN <<>>
        ELSE LET content_part == strip(split_first(line_clean, "#"), Whitespace)
                 toks == split_ws(content_part)
                 cl   == [i \in 1..Len(toks) |-> clean_domain(toks[i])]
             IN  IF content_part = <<>> THEN <<>>
                 ELSE SelectSeq(cl, LAMBDA d : d # <<>>)

\* the loops "for domain in line_domains: if trie.is_subdomain_or_match(domain):
\* ... break": "True" at the first match, "TypeError" if a query raises before
\* any match, "False" otherwise
RECURSIVE any_match(_, _, _, _)
any_match(h, trie, domains, i) ==
    IF i > Len(domains) THEN "False"
    ELSE LET r == is_subdomain_or_match(h, trie, domains[i])
         IN  IF r = "False" THEN any_match(h, trie, domains, i + 1) ELSE r

\* a loop body that appends the stripped line instead of the original one
filter_line_clean(h, white, black, lines, original_line) ==
    LET line_domains == line_domains_of(original_line)
        match_white  == any_match(h, white, line_domains, 1)
        match_black  == any_match(h, black, line_domains, 1)
    IN  IF line_domains = <<>> THEN [filtered_lines |-> lines, raised |-> FALSE]
        ELSE IF match_white = "TypeError" THEN [filtered_lines |-> lines, raised |-> TRUE]
        ELSE IF match_white = "False" THEN [filtered_lines |-> lines, raised |-> FALSE]
        ELSE IF match_black = "TypeError" THEN [filtered_lines |-> lines, raised |-> TRUE]
        ELSE IF match_black = "True" THEN [filtered_lines |-> lines, raised |-> FALSE]
        ELSE [filtered_lines |-> Append(lines, strip(original_line, Whitespace)),
              raised |-> FALSE]

\* one iteration of the loop over the hosts lines: filtered_lines afterwards
\* and whether a query raised
filter_line(h, white, black, lines, original_line) ==
    LET line_domains == line_domains_of(original_line)
        match_white  == any_match(h, white, line_domains, 1)
        match_black  == any_match(h, black, line_domains, 1)
    IN  IF line_domains = <<>> THEN [filtered_lines |-> lines, raised |-> FALSE]
        ELSE IF match_white = "TypeError" THEN [filtered_lines |-> lines, raised |-> TRUE]
        ELSE IF match_white = "False" THEN [filtered_lines |-> lines, raised |-> FALSE]
        ELSE IF match_black = "TypeError" THEN [filtered_lines |-> lines, raised |-> TRUE]
        ELSE IF match_black = "True" THEN [filtered_lines |-> lines, raised |-> FALSE]
        ELSE [filtered_lines |-> Append(lines, original_line), raised |-> FALSE]

----------------------------------------------------------------------------
(* Inputs: the lines the four sources may deliver *)

ListSources == {"white", "black1", "black2"}
Sources     == ListSources \cup {"hosts"}

SourceLines(src) ==
    CASE src = "white"  -> { <<"a">>, <<"$", ".", "a">>, <<"#", "a">> }
      [] src = "black1" -> { <<" ", "b", ".">> }
      [] src = "black2" -> { <<"$">>, <<"a", ".", "a">> }
      [] src = "hosts"  -> { <<"a">>,
                             <<" ", "a", ".", " ", "#", "b">>,
                             <<"a", " ", "$">>,
                             <<"b", " ", "a">>,
                             <<"a", ".", "a">> }
      [] OTHER          -> {}

NoFile == <<"no file">>

----------------------------------------------------------------------------
(* main *)

CurTrie ==
    IF pc = "white" THEN white_trie
    ELSE IF pc = "black1" THEN black_trie1 ELSE black_trie2

\* main after build_trie_from_url(WHITELIST_URL) returned (ok: a trie, not
\* None): exit(1), or go on to the first deny list, whose build starts with
\* trie = DomainTrie()
AfterWhite(h, ok) ==
    IF ok
    THEN /\ heap' = Append(h, EmptyDict)
         /\ black_trie1' = Len(h) + 1
         /\ pc' = "black1"
         /\ exit_code' = exit_code
    ELSE /\ heap' = h
         /\ black_trie1' = black_trie1
         /\ pc' = "exit1"
         /\ exit_code' = "1"

\* main after build_trie_from_url(BLACKLIST_URL1) returned: "or DomainTrie()"
\* replaces None by a fresh trie; then the second build starts
AfterBlack1(h, ok) ==
    LET h1 == IF ok THEN h ELSE Append(h, EmptyDict)
    IN  /\ black_trie1' = IF ok THEN black_trie1 ELSE Len(h1)
        /\ heap' = Append(h1, EmptyDict)
        /\ black_trie2' = Len(h1) + 1
        /\ pc' = "black2"

\* main after build_trie_from_url(BLACKLIST_URL2) returned: "or DomainTrie()",
\* merge_tries(black_trie1, black_trie2), then filter_hosts_file starts
AfterBlack2(h, ok) ==
    LET h1 == IF ok THEN h ELSE Append(h, EmptyDict)
        b2 == IF ok THEN black_trie2 ELSE Len(h1)
    IN  /\ black_trie2' = b2
        /\ heap' = merge_tries(h1, black_trie1, b2)
        /\ pc' = "hosts"

\* build_trie_from_url returns (ok) or reaches its except clause (~ok), and
\* main runs up to the next read of a source
BuildReturns(h, ok, failed) ==
    /\ outcome' = [outcome EXCEPT ![pc] = IF ok THEN "returned" ELSE "except"]
    /\ src_failed' = IF failed THEN src_failed \cup {pc} ELSE src_failed
    /\ n_read' = 0
    /\ CASE pc = "white"  -> AfterWhite(h, ok) /\ UNCHANGED <<white_trie, black_trie2>>
         [] pc = "black1" -> AfterBlack1(h, ok) /\ UNCHANGED <<white_trie, exit_code>>
         [] pc = "black2" -> AfterBlack2(h, ok) /\ UNCHANGED <<white_trie, black_trie1, exit_code>>
    /\ UNCHANGED <<hosts_read, filtered_lines, result_lines, file>>

\* the list source delivers a line
BuildLine(line) ==
    /\ pc \in ListSources
    /\ n_read < MaxLines
    /\ line \in SourceLines(pc)
    /\ LET r == build_line(heap, CurTrie, line)
       IN  IF r.raised
           THEN BuildReturns(r.heap, FALSE, FALSE)
           ELSE /\ heap' = r.heap
                /\ n_read' = n_read + 1
                /\ UNCHANGED <<pc, white_trie, black_trie1, black_trie2, outcome,
                               src_failed, hosts_read, filtered_lines,
                               result_lines, file, exit_code>>
    /\ UNCHANGED <<trieVars, cleanVars>>

\* the list source ends
BuildEnd ==
    /\ pc \in ListSources
    /\ BuildReturns(heap, TRUE, FALSE)
    /\ UNCHANGED <<trieVars, cleanVars>>

\* the list source raises (session.get, raise_for_status or iter_lines)
BuildFail ==
    /\ pc \in ListSources
    /\ BuildReturns(heap, FALSE, TRUE)
    /\ UNCHANGED <<trieVars, cleanVars>>

\* filter_hosts_file returns lines; main writes the file and ends
Save(lines, ok, failed) ==
    /\ outcome' = [outcome EXCEPT !["hosts"] = IF ok THEN "returned" ELSE "except"]
    /\ src_failed' = IF failed THEN src_failed \cup {"hosts"} ELSE src_failed
    /\ result_lines' = lines
    /\ file' = join(lines)
    /\ exit_code' = "0"
    /\ pc' = "done"
    /\ UNCHANGED <<heap, white_trie, black_trie1, black_trie2, n_read>>

\* the hosts source delivers a line
HostsLine(line) ==
    /\ pc = "hosts"
    /\ n_read < MaxLines
    /\ line \in SourceLines("hosts")
    /\ hosts_read' = Append(hosts_read, line)
    /\ LET r == filter_line(heap, white_trie, black_trie1, filtered_lines, line)
       IN  IF r.raised
           THEN Save(<<>>, FALSE, FALSE) /\ UNCHANGED filtered_lines
           ELSE /\ filtered_lines' = r.filtered_lines
                /\ n_read' = n_read + 1
                /\ UNCHANGED <<heap, pc, white_trie, black_trie1, black_trie2,
                               outcome, src_failed, result_lines, file, exit_code>>
    /\ UNCHANGED <<trieVars, cleanVars>>

\* the hosts source ends
HostsEnd ==
    /\ pc = "hosts"
    /\ Save(filtered_lines, TRUE, FALSE)
    /\ UNCHANGED <<hosts_read, filtered_lines, trieVars, cleanVars>>

\* the hosts source raises
HostsFail ==
    /\ pc = "hosts"
    /\ Save(<<>>, FALSE, TRUE)
    /\ UNCHANGED <<hosts_read, filtered_lines, trieVars, cleanVars>>

MainIdle ==
    /\ pc = "idle" /\ white_trie = None /\ black_trie1 = None /\ black_trie2 = None
    /\ n_read = 0 /\ outcome = [s \in Sources |-> "pending"] /\ src_failed = {}
    /\ hosts_read = <<>> /\ filtered_lines = <<>> /\ result_lines = <<>>
    /\ file = NoFile /\ exit_code = "running"

TrieIdle ==
    /\ trie1 = None /\ trie2 = None /\ ops = 0
    /\ inserted = [t \in {1, 2} |-> {}] /\ merged = [t \in {1, 2} |-> FALSE]
    /\ last = [op |-> "none", dst |-> 0, key |-> <<>>, raised |-> FALSE]

CleanIdle ==
    raw = <<>> /\ cleaned = <<>> /\ cl_pc = "idle"

\* main at its first read: the session exists and build_trie_from_url has
\* created the allow trie
Init ==
    /\ heap = <<EmptyDict>>
    /\ pc = "white" /\ white_trie = 1 /\ black_trie1 = None /\ black_trie2 = None
    /\ n_read = 0 /\ outcome = [s \in Sources |-> "pending"] /\ src_failed = {}
    /\ hosts_read = <<>> /\ filtered_lines = <<>> /\ result_lines = <<>>
    /\ file = NoFile /\ exit_code = "running"
    /\ TrieIdle /\ CleanIdle

Next ==
    \/ \E line \in SourceLines(pc) : BuildLine(line)
    \/ BuildEnd
    \/ BuildFail
    \/ \E line \in SourceLines("hosts") : HostsLine(line)
    \/ HostsEnd
    \/ HostsFail

Spec == Init /\ [][Next]_vars

----------------------------------------------------------------------------
(* DomainTrie operations in any order: two tries, add_domain and merge_tries *)

\* cleaned, non-empty domain keys: one label, several labels, an empty
\* label, and labels spelled like the end mark
Keys == { <<"a">>, <<"a", "a">>, <<"a", ".", "a">>, <<"a", ".", ".", "a">>,
          <<"$">>, <<"$", ".", "a">>, <<"a", ".", "$">> }

Root(t) == IF t = 1 THEN trie1 ELSE trie2

\* the answer of is_subdomain_or_match for every candidate
Matched(h, root) == [d \in Keys |-> is_subdomain_or_match(h, root, d)]

\* the candidates for which is_subdomain_or_match returns True
MatchedSet(h, root) == {d \in Keys : is_subdomain_or_match(h, root, d) = "True"}

\* two DomainTrie() objects
TrieInit ==
    /\ heap = <<EmptyDict, EmptyDict>>
    /\ trie1 = 1 /\ trie2 = 2 /\ ops = 0
    /\ inserted = [t \in {1, 2} |-> {}] /\ merged = [t \in {1, 2} |-> FALSE]
    /\ last = [op |-> "none", dst |-> 0, key |-> <<>>, raised |-> FALSE]
    /\ MainIdle /\ CleanIdle

\* trie t .add_domain(k)
AddDomain(t, k) ==
    /\ ops < MaxOps
    /\ LET r == add_domain(heap, Root(t), k)
       IN  /\ heap' = r.heap
           /\ inserted' = IF r.raised THEN inserted
                          ELSE [inserted EXCEPT ![t] = @ \cup {k}]
           /\ last' = [op |-> "add", dst |-> t, key |-> k, raised |-> r.raised]
    /\ ops' = ops + 1
    /\ UNCHANGED <<trie1, trie2, merged, mainVars, cleanVars>>

\* merge_tries(dst, src)
MergeTries(dst, src) ==
    /\ ops < MaxOps
    /\ dst # src
    /\ heap' = merge_tries(heap, Root(dst), Root(src))
    /\ merged' = [merged EXCEPT ![dst] = TRUE]
    /\ last' = [op |-> "merge", dst |-> dst, key |-> <<>>, raised |-> FALSE]
    /\ ops' = ops + 1
    /\ UNCHANGED <<trie1, trie2, inserted, mainVars, cleanVars>>

TrieNext ==
    \/ \E t \in {1, 2}, k \in Keys : AddDomain(t, k)
    \/ \E dst \in {1, 2}, src \in {1, 2} : MergeTries(dst, src)

SpecTrie == TrieInit /\ [][TrieNext]_vars

----------------------------------------------------------------------------
(* clean_domain on raw tokens *)

TokenChars == {"a", ".", " "}

Tokens == UNION {[1..n -> TokenChars] : n \in 0..MaxTokLen}

CleanInit ==
    /\ heap = <<>>
    /\ raw \in Tokens /\ cleaned = <<>> /\ cl_pc = "start"
    /\ MainIdle /\ TrieIdle

Clean ==
    /\ cl_pc = "start"
    /\ cleaned' = clean_domain(raw)
    /\ cl_pc' = "done"
    /\ UNCHANGED <<heap, raw, mainVars, trieVars>>

CleanNext == Clean

SpecClean == CleanInit /\ [][CleanNext]_vars

----------------------------------------------------------------------------
(* Properties *)

\* the label sequence k equals the label sequence d or is a suffix of it
IsLabelSuffix(k, d) ==
    /\ Len(k) <= Len(d)
    /\ SubSeq(d, Len(d) - Len(k) + 1, Len(d)) = k

\* C1: in a trie reached by add_domain calls only, is_subdomain_or_match(D)
\* returns True exactly when some inserted key's label sequence equals D's
\* label sequence or is a suffix of it on label boundaries.
C1_MatchIffLabelSuffix ==
    \A t \in {1, 2} :
        (pc = "idle" /\ ~merged[t]) =>
            \A d \in Keys :
                (is_subdomain_or_match(heap, Root(t), d) = "True")
                <=> (\E k \in inserted[t] :
                        IsLabelSuffix(split(k, "."), split(d, ".")))

\* some candidate domain of the line matches the allow trie
AllowMatch(line) ==
    \E i \in DOMAIN line_domains_of(line) :
        is_subdomain_or_match(heap, white_trie, line_domains_of(line)[i]) = "True"

\* some candidate domain of the line matches the (merged) deny trie
DenyMatch(line) ==
    \E i \in DOMAIN line_domains_of(line) :
        is_subdomain_or_match(heap, black_trie1, line_domains_of(line)[i]) = "True"

\* the line classifies as Keep
KeepLine(line) ==
    line_domains_of(line) # <<>> /\ AllowMatch(line) /\ ~DenyMatch(line)

\* C2: a hosts line with at least one valid candidate domain is kept (is in
\* the returned list) if and only if some candidate matches the allow trie
\* and no candidate matches the deny trie.
C2_KeptIffAllowAndNotDeny ==
    (pc = "done" /\ "hosts" \notin src_failed) =>
        \A i \in DOMAIN hosts_read :
            line_domains_of(hosts_read[i]) # <<>> =>
                ((\E j \in DOMAIN result_lines : result_lines[j] = hosts_read[i])
                 <=> (AllowMatch(hosts_read[i]) /\ ~DenyMatch(hosts_read[i])))

\* C3: for tries built by add_domain, the domains matched after
\* merge_tries(T1, T2) (read from T1) are those matched after
\* merge_tries(T2, T1) (read from T2), and are the union of the domains
\* matched by T1 and by T2 before the merge.
C3_MergeCommutesAndIsUnion ==
    (pc = "idle" /\ cl_pc = "idle" /\ ~merged[1] /\ ~merged[2]) =>
        LET h12 == merge_tries(heap, trie1, trie2)
            h21 == merge_tries(heap, trie2, trie1)
        IN  /\ MatchedSet(h12, trie1) = MatchedSet(h21, trie2)
            /\ MatchedSet(h12, trie1)
                   = MatchedSet(heap, trie1) \cup MatchedSet(heap, trie2)

\* C4: when the hosts source is read to its end and filter_hosts_file returns
\* normally, the returned list is the subsequence of the lines read that
\* classify as Keep: unmodified, in input order, with repetitions.
C4_ResultIsKeptSubsequence ==
    (pc = "done" /\ outcome["hosts"] = "returned") =>
        result_lines = SelectSeq(hosts_read, KeepLine)

\* a run that read two copies of a line with surrounding whitespace and an
\* inline comment and kept both
C4_Witness ==
    /\ pc = "done" /\ outcome["hosts"] = "returned"
    /\ Len(result_lines) = 2
    /\ result_lines[1] = result_lines[2]
    /\ result_lines[1] # strip(result_lines[1], Whitespace)
    /\ find(result_lines[1], "#", 1) > 0

\* C5: when the allow list is fetched but stores no domain, the run ends with
\* a failure exit before any hosts line is classified or any file is written.
C5_EmptyAllowTrieAborts ==
    (outcome["white"] = "returned" /\ DOMAIN heap[white_trie] = {}) =>
        (pc = "exit1" /\ exit_code = "1" /\ hosts_read = <<>> /\ file = NoFile)

\* C6: when the hosts source fails after delivering some lines, the run ends
\* as a failure and writes no result file.
C6_HostsFailureIsNotSaved ==
    ("hosts" \in src_failed /\ hosts_read # <<>>) =>
        (file = NoFile /\ exit_code # "0")

\* C7: build_trie_from_url returns None only when its source is unavailable;
\* no content of the delivered lines makes it fail.
C7_BuildFailsOnlyOnTransport ==
    \A s \in ListSources : (outcome[s] = "except") => (s \in src_failed)

\* C8: clean_domain gives the same key for a token and for the token with
\* its internal dot runs collapsed, and a trie holding the collapsed key
\* matches the token's key.
C8_CleanCollapsesDotRuns ==
    (cl_pc = "done") =>
        /\ cleaned = clean_domain(collapse_dots(raw))
        /\ (cleaned # <<>> =>
               is_subdomain_or_match(
                   add_domain(<<EmptyDict>>, 1, clean_domain(collapse_dots(raw))).heap,
                   1, cleaned) = "True")

\* C8 as amended: clean_domain only removes characters at the two ends. Its
\* result is a contiguous slice of the token that neither starts nor ends
\* with a dot, every character outside the slice is whitespace or a dot, and
\* a token without whitespace or dot at its ends is returned as it is, its
\* internal dot runs included.
C8_CleanStripsEndsOnly ==
    (cl_pc = "done") =>
        /\ \E i \in 0..Len(raw) :
              /\ i + Len(cleaned) <= Len(raw)
              /\ cleaned = SubSeq(raw, i + 1, i + Len(cleaned))
              /\ \A j \in 1..Len(raw) :
                    (j <= i \/ j > i + Len(cleaned)) => raw[j] \in {" ", "."}
        /\ (cleaned # <<>> => (cleaned[1] # "." /\ cleaned[Len(cleaned)] # "."))
        /\ ((raw # <<>> /\ raw[1] \notin {" ", "."} /\ raw[Len(raw)] \notin {" ", "."})
               => cleaned = raw)

\* a token with an internal run of two dots was cleaned
C8_Witness ==
    cl_pc = "done" /\ raw = <<"a", ".", ".", "a">> /\ cleaned = raw

\* the dict objects reachable from a root
RECURSIVE ReachFrom(_, _, _)
ReachFrom(h, frontier, seen) ==
    IF frontier = {} THEN seen
    ELSE LET n    == CHOOSE x \in frontier : TRUE
             kids == {h[n][k] : k \in DOMAIN h[n]} \ {True}
         IN  ReachFrom(h, (frontier \cup kids) \ (seen \cup {n}), seen \cup {n})

Reach(h, root) == ReachFrom(h, {root}, {})

\* C9: the two tries never share a dict object, and every operation leaves
\* the answers of the trie that is not its destination unchanged: merge_tries
\* does not change its source, and add_domain on one trie, also after a
\* merge, does not change the other.
C9_NoSharedNodes ==
    /\ [](pc = "idle" /\ cl_pc = "idle" =>
             Reach(heap, trie1) \cap Reach(heap, trie2) = {})
    /\ [][pc = "idle" /\ cl_pc = "idle" =>
             /\ last'.dst # 1 => Matched(heap', trie1') = Matched(heap, trie1)
             /\ last'.dst # 2 => Matched(heap', trie2') = Matched(heap, trie2)]_vars

\* add_domain stored a key in trie 1 after trie 2, which holds keys, was
\* merged into it
C9_Witness ==
    /\ merged[1] /\ inserted[2] # {}
    /\ last.op = "add" /\ last.dst = 1 /\ ~last.raised
    /\ Cardinality(Reach(heap, trie1)) > 2

\* C10: no add_domain and no merge_tries into a trie makes a domain that
\* matched stop matching, and add_domain of a key already inserted leaves the
\* answers unchanged.
C10_Monotonic ==
    [][pc = "idle" /\ cl_pc = "idle" =>
          /\ MatchedSet(heap, trie1) \subseteq MatchedSet(heap', trie1')
          /\ MatchedSet(heap, trie2) \subseteq MatchedSet(heap', trie2')
          /\ (last'.op = "add" /\ ops' # ops /\ last'.key \in inserted[last'.dst])
                => /\ Matched(heap', trie1') = Matched(heap, trie1)
                   /\ Matched(heap', trie2') = Matched(heap, trie2)]_vars

====
